---- MODULE Spec2Model ----
(***************************************************************************)
(* A model of the Ava front-desk assistant of src/app.py: the in-memory    *)
(* call_state map, the confirmed_requests, availability_slots, services    *)
(* and faqs tables, and the HTTP handlers that read and write them         *)
(* (gather, trigger_call, voice, incoming_call, admin_slots, confirm_time, *)
(* admin_reindex).  Utterances are strings; the handlers' substring and    *)
(* regular-expression tests are computed character by character.           *)
(***************************************************************************)
EXTENDS Integers, Sequences, FiniteSets, Bags, TLC

(***************************************************************************)
(* Bounds of the model.                                                    *)
(***************************************************************************)
\* the clock shows day 1 .. MaxToday (date.today() as an index into Dates)
MaxToday == 2
\* no more than MaxBookings rows are inserted into confirmed_requests when the
\* requests are served one at a time
MaxBookings == 1
\* request threads of the threaded specification
NumThreads == 2
\* no more than MaxRaceBookings rows are inserted by the request threads
MaxRaceBookings == 2

(***************************************************************************)
(* Strings.                                                                *)
(***************************************************************************)
\* Python's None (state.get of a missing key, a JSON null, a SQL NULL)
None == "None"

\* Python: sub in s
Contains(s, sub) ==
    \E i \in 1..(Len(s) + 1 - Len(sub)) : SubSeq(s, i, i + Len(sub) - 1) = sub

\* the i-th character of s, "" outside of s
CharAt(s, i) == IF i >= 1 /\ i <= Len(s) THEN SubSeq(s, i, i) ELSE ""

UpperAlpha == "ABCDEFGHIJKLMNOPQRSTUVWXYZ"
LowerAlpha == "abcdefghijklmnopqrstuvwxyz"
Digits == "0123456789"

IsLetter(c) == Len(c) = 1 /\ (Contains(UpperAlpha, c) \/ Contains(LowerAlpha, c))
IsDigit(c) == Len(c) = 1 /\ Contains(Digits, c)
\* the regular expressions' \w, over ASCII
IsWordChar(c) == IsLetter(c) \/ IsDigit(c) \/ c = "_"

LowerChar(c) ==
    IF Contains(UpperAlpha, c)
    THEN LET i == CHOOSE k \in 1..26 : SubSeq(UpperAlpha, k, k) = c
         IN  SubSeq(LowerAlpha, i, i)
    ELSE c

\* Python: s.lower()
RECURSIVE Lower(_)
Lower(s) ==
    IF s = "" THEN ""
    ELSE LowerChar(SubSeq(s, 1, 1)) \o Lower(SubSeq(s, 2, Len(s)))

\* a strip that keeps the blanks
NoStrip(s) == s

\* Python: s.strip(), over blanks
RECURSIVE Strip(_)
Strip(s) ==
    IF s = "" THEN ""
    ELSE IF SubSeq(s, 1, 1) = " " THEN Strip(SubSeq(s, 2, Len(s)))
    ELSE IF SubSeq(s, Len(s), Len(s)) = " " THEN Strip(SubSeq(s, 1, Len(s) - 1))
    ELSE s

\* Python truthiness of a session or payload value: neither None nor ""
Truthy(v) == v # None /\ v # ""

(***************************************************************************)
(* EMAIL_REGEX = [A-Za-z0-9._%+-]+@[A-Za-z0-9.-]+\.[A-Za-z]{2,}            *)
(***************************************************************************)
IsEmailLocal(c) == IsLetter(c) \/ IsDigit(c) \/ (Len(c) = 1 /\ Contains("._%+-", c))
IsEmailDomain(c) == IsLetter(c) \/ IsDigit(c) \/ (Len(c) = 1 /\ Contains(".-", c))

\* the positions j of a "." that can end the domain part of a match whose
\* "@" is at position at
EmailDots(s, at) ==
    { j \in (at + 2)..Len(s) :
        /\ CharAt(s, j) = "."
        /\ \A k \in (at + 1)..(j - 1) : IsEmailDomain(CharAt(s, k))
        /\ IsLetter(CharAt(s, j + 1))
        /\ IsLetter(CharAt(s, j + 2)) }

\* the positions of an "@" at which EMAIL_REGEX matches
EmailAts(s) ==
    { at \in 2..Len(s) :
        /\ CharAt(s, at) = "@"
        /\ IsEmailLocal(CharAt(s, at - 1))
        /\ EmailDots(s, at) # {} }

SetMax(S) == CHOOSE x \in S : \A y \in S : y <= x
SetMin(S) == CHOOSE x \in S : \A y \in S : x <= y

\* re.search(EMAIL_REGEX, s): the leftmost match, each part greedy; "" when
\* there is none (a match is never empty)
EmailSearch(s) ==
    IF EmailAts(s) = {} THEN ""
    ELSE LET at    == SetMin(EmailAts(s))
             start == SetMin({ i \in 1..(at - 1) :
                                 \A k \in i..(at - 1) : IsEmailLocal(CharAt(s, k)) })
             dot   == SetMax(EmailDots(s, at))
             stop  == SetMax({ e \in (dot + 2)..Len(s) :
                                 \A k \in (dot + 1)..e : IsLetter(CharAt(s, k)) })
         IN  SubSeq(s, start, stop)

(***************************************************************************)
(* re.search(r"\b(1|2|3|4|5)\b", s): the leftmost digit 1..5 that stands   *)
(* alone as a word, as << n >>; << >> when there is none.                  *)
(***************************************************************************)
DigitValue(c) == CHOOSE n \in 0..9 : SubSeq(Digits, n + 1, n + 1) = c

BedroomDigitPositions(s) ==
    { i \in 1..Len(s) :
        /\ Contains("12345", CharAt(s, i))
        /\ ~IsWordChar(CharAt(s, i - 1))
        /\ ~IsWordChar(CharAt(s, i + 1)) }

BedroomSearch(s) ==
    IF BedroomDigitPositions(s) = {} THEN << >>
    ELSE << DigitValue(CharAt(s, SetMin(BedroomDigitPositions(s)))) >>

(***************************************************************************)
(* re.search(r"(20\d{2}-\d{2}-\d{2})", t): the leftmost date literal, ""   *)
(* when there is none.                                                     *)
(***************************************************************************)
DateLiteralPositions(t) ==
    { i \in 1..(Len(t) - 9) :
        /\ SubSeq(t, i, i + 1) = "20"
        /\ IsDigit(CharAt(t, i + 2)) /\ IsDigit(CharAt(t, i + 3))
        /\ CharAt(t, i + 4) = "-"
        /\ IsDigit(CharAt(t, i + 5)) /\ IsDigit(CharAt(t, i + 6))
        /\ CharAt(t, i + 7) = "-"
        /\ IsDigit(CharAt(t, i + 8)) /\ IsDigit(CharAt(t, i + 9)) }

DateSearch(t) ==
    IF DateLiteralPositions(t) = {} THEN ""
    ELSE LET i == SetMin(DateLiteralPositions(t)) IN SubSeq(t, i, i + 9)

(***************************************************************************)
(* Dates: date.today() is the index today into Dates, isoformat() the      *)
(* string at that index, + timedelta(days=1) the next index.               *)
(***************************************************************************)
Dates == << "2026-10-30", "2026-10-31", "2026-11-01", "2026-11-02", "2026-11-03" >>

isoformat(d) == Dates[d]

(***************************************************************************)
(* Inputs.                                                                 *)
(***************************************************************************)
\* caller ids (the phone query parameter, From)
Phones == { "+15550001" }

\* SpeechResult values of the turns
Utterances == { "", "yes", "Tomorrow PM" }

\* SpeechResult values of the turns around the knowledge lookup and the
\* bedrooms step
DialogUtterances == { "yes", "3", "3br", "three", "Do you bring supplies?" }

\* the booking funnel, turn by turn: what a caller may say at each turn
FunnelScript ==
    << { "I want to book a cleaning" },
       { "Standard Cleaning", "Deep Cleaning" },
       { "3", "two" },
       { "yes" },
       { "Ann Lee", "Deepak Patel" },
       { "Toronto", "Ottawa" },
       { "5 King Road", "12 Main Street" },
       { "tomorrow pm" } >>

FunnelUtterances == UNION { FunnelScript[i] : i \in 1..Len(FunnelScript) }

\* SpeechResult values of the turns served by concurrent threads
RaceUtterances == { "yes", "Tomorrow PM" }

\* SpeechResult values of a caller who never says yes, sure or please
PlainUtterances == { "I want to book a cleaning", "Ann Lee", "tomorrow pm" }

\* SpeechResult values of the turns around the slot question
SlotUtterances ==
    { "yes", "today morning", "2026-11-02 evening", "tomorrow pm for Sam" }

\* SpeechResult values that hold blanks only
Blanks == { "   " }

\* the caller ids of the calls that run side by side, one per thread
PairPhones == << "+15550001", "+15550002", "+15550003" >>

\* what get_mistral_response returns
AiReplies == { "Happy to help with that." }

\* what the scraper finds on the site (nothing when it is unreachable)
ScrapedServices ==
    << [ name |-> "Deep Cleaning 3 Bedroom",
         description |-> "Top to bottom deep clean", price |-> "$299" ],
       [ name |-> "Standard Cleaning",
         description |-> "Regular upkeep of your home", price |-> "" ] >>
ScrapedFaqs ==
    << [ question |-> "Do you bring supplies?",
         answer |-> "Our cleaners bring all supplies." ] >>

\* the site is unreachable, or it is scraped
Scrapes ==
    { [ services |-> << >>, faqs |-> << >> ],
      [ services |-> ScrapedServices, faqs |-> ScrapedFaqs ] }

\* JSON bodies of POST /trigger_call
TriggerPayloads ==
    { [ name |-> "Ann", phone |-> "+15550001", service |-> "Deep Cleaning",
        message |-> "call me", email |-> "ann@kepsten.com", city |-> "Toronto",
        address |-> "5 King Road" ],
      [ name |-> "Ann", phone |-> "+15550001", service |-> "Standard Cleaning",
        message |-> "call me", email |-> None, city |-> None, address |-> None ],
      [ name |-> None, phone |-> "+15550001", service |-> "Standard Cleaning",
        message |-> "call me", email |-> None, city |-> None, address |-> None ] }

\* JSON bodies of /admin/slots
AdminSlotPayloads == { [ day |-> Dates[2], slot |-> "PM" ], [ day |-> None, slot |-> "PM" ] }

\* SpeechResult values of /confirm-time
ConfirmTimes == { "", "friday at noon" }

(***************************************************************************)
(* The session dict of one caller.  A key that is missing and a key that   *)
(* holds None read the same through state.get(); "bedrooms", the one key   *)
(* the code tests with `in`, is << >> while missing and << n >> once set.  *)
(***************************************************************************)
EmptySession ==
    [ name |-> None, email |-> None, phone |-> None, service |-> None,
      message |-> None, city |-> None, address |-> None, phase |-> None,
      bedrooms |-> << >> ]

\* call_state.get(phone, {}) or {}
SessionOf(cs, phone) == IF phone \in DOMAIN cs THEN cs[phone] ELSE EmptySession

\* a store whose callers all share one session dict
PutEverySession(cs, phone, value) ==
    [ q \in (DOMAIN cs) \cup {phone} |-> value ]

\* call_state[phone] = value
PutSession(cs, phone, value) ==
    [ q \in (DOMAIN cs) \cup {phone} |-> IF q = phone THEN value ELSE cs[q] ]

\* SQLite's  column LIKE '%query%'  (case-insensitive over ASCII)
Like(column, query) == Contains(Lower(column), Lower(query))

(***************************************************************************)
(* detect_simple_intent                                                    *)
(***************************************************************************)
BookKeywords ==
    { "book", "schedule", "i want", "i'd like", "please book", "yes", "confirm",
      "sounds good" }
LocationKeywords ==
    { "address", "street", "avenue", "road", "apt", "suite", "city", "postal", "code" }
AvailabilityKeywords == { "today", "tomorrow", "am", "pm", "morning", "evening" }
ServiceKeywords ==
    { "deep cleaning", "standard cleaning", "move", "post construction", "hourly" }

\* a classifier that tests the availability keywords before the location ones
detect_availability_first(text) ==
    LET t == Lower(IF text = None THEN "" ELSE text)
    IN  IF \E x \in BookKeywords : Contains(t, x) THEN "book"
        ELSE IF EmailSearch(t) # "" \/ Contains(t, "email") THEN "email"
        ELSE IF \E k \in AvailabilityKeywords : Contains(t, k) THEN "availability"
        ELSE IF \E k \in LocationKeywords : Contains(t, k) THEN "location"
        ELSE IF \E k \in ServiceKeywords : Contains(t, k) THEN "service_choice"
        ELSE "question"

detect_simple_intent(text) ==
    LET t == Lower(IF text = None THEN "" ELSE text)
    IN  IF \E x \in BookKeywords : Contains(t, x) THEN "book"
        ELSE IF EmailSearch(t) # "" \/ Contains(t, "email") THEN "email"
        ELSE IF \E k \in LocationKeywords : Contains(t, k) THEN "location"
        ELSE IF \E k \in AvailabilityKeywords : Contains(t, k) THEN "availability"
        ELSE IF \E k \in ServiceKeywords : Contains(t, k) THEN "service_choice"
        ELSE "question"

(***************************************************************************)
(* The day and the half-day of a slot utterance.                           *)
(***************************************************************************)
\* the day of the slot utterance t (lower case): None when it names none
parse_day(t, today_) ==
    IF Contains(t, "today") THEN isoformat(today_)
    ELSE IF Contains(t, "tomorrow") THEN isoformat(today_ + 1)
    ELSE IF DateSearch(t) # "" THEN DateSearch(t)
    ELSE None

\* the half-day of the slot utterance t (lower case): None when it names none
parse_slot(t) ==
    IF Contains(t, "am") \/ Contains(t, "morning") THEN "AM"
    ELSE IF Contains(t, "pm") \/ Contains(t, "evening") \/ Contains(t, "afternoon")
    THEN "PM"
    ELSE None


(***************************************************************************)
(* The tests of gather on the texts of the model, tabulated once: every    *)
(* table is the operator it names applied to each text.                    *)
(***************************************************************************)
\* the values request.form.get('SpeechResult') takes
RawTexts ==
    Utterances \cup DialogUtterances \cup FunnelUtterances \cup RaceUtterances
      \cup ConfirmTimes \cup Blanks \cup PlainUtterances \cup SlotUtterances

\* (SpeechResult or "").strip()
strip_of == [ raw \in RawTexts |-> Strip(raw) ]

\* the values of user_input
Inputs == { strip_of[raw] : raw \in RawTexts }

\* the values of state.get("service") or ""
ServiceTexts == { p.service : p \in TriggerPayloads } \cup { "" }

\* the name and description columns of the services table
Columns ==
    { ScrapedServices[i].name : i \in 1..Len(ScrapedServices) }
      \cup { ScrapedServices[i].description : i \in 1..Len(ScrapedServices) }

like_of == [ c \in Columns, q \in Inputs |-> Like(c, q) ]
intent_of == [ u \in Inputs |-> detect_simple_intent(u) ]
email_of == [ u \in Inputs |-> EmailSearch(u) ]
bedroom_of == [ u \in Inputs |-> BedroomSearch(u) ]
deep_in == [ u \in Inputs \cup ServiceTexts |-> Contains(Lower(u), "deep") ]
day_of == [ u \in Inputs, d \in 1..MaxToday |-> parse_day(Lower(u), d) ]
slot_of == [ u \in Inputs |-> parse_slot(Lower(u)) ]

(***************************************************************************)
(* The knowledge store: the services table, in rowid order.                *)
(***************************************************************************)
RECURSIVE SelectRows(_, _)
SelectRows(rows, query) ==
    IF rows = << >> THEN << >>
    ELSE LET r    == Head(rows)
             rest == SelectRows(Tail(rows), query)
         IN  IF like_of[r.name, query] \/ like_of[r.description, query]
             THEN << r >> \o rest ELSE rest

KbLimit == 6

search_knowledge_base(rows, query) ==
    LET hits == SelectRows(rows, query)
    IN  SubSeq(hits, 1, IF Len(hits) < KbLimit THEN Len(hits) ELSE KbLimit)

RECURSIVE JoinParts(_)
JoinParts(kb) ==
    IF kb = << >> THEN ""
    ELSE LET r == Head(kb)
             p == IF r.price # "" THEN r.name \o " - " \o r.price ELSE r.name
         IN  IF Len(kb) = 1 THEN p ELSE p \o "; " \o JoinParts(Tail(kb))

KbShown == 3

\* the reply of a knowledge hit: the first three results
KbReply(kb) ==
    "I found: "
      \o JoinParts(SubSeq(kb, 1, IF Len(kb) < KbShown THEN Len(kb) ELSE KbShown))
      \o ". Would you like to book one of these?"

(***************************************************************************)
(* The prompts of gather.                                                  *)
(***************************************************************************)
RepeatPrompt == "Sorry, I didn't catch that. Could you please repeat?"
ServiceMenuPrompt ==
    "Sure - which service would you like? We offer Standard Cleaning, Deep Cleaning, Move In/Move Out, Post Construction, and Hourly Packages."
NamePrompt == "Great. Can I get the full name for the booking?"
EmailPrompt == "Thanks. What's the best email address for confirmation?"
CityPrompt == "Thanks. Which city are you in?"
AddressPrompt == "Great - can you provide the street address (or nearest intersection)?"
BedroomsPrompt == "How many bedrooms should we plan for? 1, 2, 3, 4 or 5?"
SlotPrompt == "Thanks - would you like a slot for today or tomorrow, AM or PM?"
ClarifyPrompt == "Would you prefer AM or PM, and is that for today or tomorrow?"

\* state.get('service', 'your service'): the default only for a missing key,
\* and gather never stores the key, so it is missing exactly when it reads None
BookedPrompt(state, chosen_day, slot) ==
    "Booked " \o (IF state.service = None THEN "your service" ELSE state.service)
      \o " for " \o chosen_day \o " " \o slot
      \o ". We'll email confirmation to " \o state.email
      \o ". Anything else I can help with?"

(***************************************************************************)
(* gather: the booking sub-flow.  Each operator returns the session after  *)
(* the branch and the prompt it speaks.                                    *)
(***************************************************************************)
\* state.get("service") or ""
ServiceOrEmpty(state) == IF Truthy(state.service) THEN state.service ELSE ""

\* a begin that forgets the name of the session
BeginAnew(state) ==
    [ taken  |-> TRUE,
      branch |-> "begin",
      state  |-> [state EXCEPT !.phase = "collecting", !.name = None],
      prompt |-> IF ~Truthy(state.service) THEN ServiceMenuPrompt ELSE NamePrompt ]

\* a begin that goes on to the slot question
BeginAtSlot(state) ==
    [ taken  |-> TRUE,
      branch |-> "begin",
      state  |-> [state EXCEPT !.phase = "availability"],
      prompt |-> IF ~Truthy(state.service) THEN ServiceMenuPrompt ELSE NamePrompt ]

\* "If not started booking and user asked to book, begin"
BeginBooking(state) ==
    [ taken  |-> TRUE,
      branch |-> "begin",
      state  |-> [state EXCEPT !.phase = "collecting"],
      prompt |-> IF ~Truthy(state.service) THEN ServiceMenuPrompt ELSE NamePrompt ]

\* contact steps that never ask for the city
CollectWithoutCity(state, user_input) ==
    IF ~Truthy(state.name)
    THEN [ taken |-> TRUE, branch |-> "name",
           state |-> [state EXCEPT !.name = user_input, !.phase = "collecting"],
           prompt |-> EmailPrompt ]
    ELSE IF ~Truthy(state.email)
    THEN LET m == email_of[user_input]
         IN  [ taken |-> TRUE, branch |-> "email",
               state |-> [state EXCEPT !.email = IF m # "" THEN m ELSE user_input],
               prompt |-> AddressPrompt ]
    ELSE IF ~Truthy(state.address)
    THEN IF deep_in[ServiceOrEmpty(state)] \/ deep_in[user_input]
         THEN [ taken |-> TRUE, branch |-> "address",
                state |-> [state EXCEPT !.address = user_input, !.phase = "collecting"],
                prompt |-> BedroomsPrompt ]
         ELSE [ taken |-> TRUE, branch |-> "address",
                state |-> [state EXCEPT !.address = user_input, !.phase = "availability"],
                prompt |-> SlotPrompt ]
    ELSE [ taken |-> FALSE, branch |-> "none", state |-> state, prompt |-> "" ]

\* the name, email, city and address steps of phase "collecting"
CollectContact(state, user_input) ==
    IF ~Truthy(state.name)
    THEN [ taken |-> TRUE, branch |-> "name",
           state |-> [state EXCEPT !.name = user_input, !.phase = "collecting"],
           prompt |-> EmailPrompt ]
    ELSE IF ~Truthy(state.email)
    THEN LET m == email_of[user_input]
         IN  [ taken |-> TRUE, branch |-> "email",
               state |-> [state EXCEPT !.email = IF m # "" THEN m ELSE user_input],
               prompt |-> CityPrompt ]
    ELSE IF ~Truthy(state.city)
    THEN [ taken |-> TRUE, branch |-> "city",
           state |-> [state EXCEPT !.city = user_input],
           prompt |-> AddressPrompt ]
    ELSE IF ~Truthy(state.address)
    THEN IF deep_in[ServiceOrEmpty(state)] \/ deep_in[user_input]
         THEN [ taken |-> TRUE, branch |-> "address",
                state |-> [state EXCEPT !.address = user_input, !.phase = "collecting"],
                prompt |-> BedroomsPrompt ]
         ELSE [ taken |-> TRUE, branch |-> "address",
                state |-> [state EXCEPT !.address = user_input, !.phase = "availability"],
                prompt |-> SlotPrompt ]
    ELSE [ taken |-> FALSE, branch |-> "none", state |-> state, prompt |-> "" ]

\* a bedrooms step that stores one bedroom whatever the digit
CollectOneBedroom(state, user_input) ==
    LET m == bedroom_of[user_input]
    IN  IF /\ state.bedrooms = << >>
           /\ (deep_in[ServiceOrEmpty(state)] \/ m # << >>)
           /\ m # << >>
        THEN [ taken |-> TRUE, branch |-> "bedrooms",
               state |-> [state EXCEPT !.bedrooms = << 1 >>, !.phase = "availability"],
               prompt |-> SlotPrompt ]
        ELSE [ taken |-> FALSE, branch |-> "none", state |-> state, prompt |-> "" ]

\* "Capture bedrooms (if needed)"
CollectBedrooms(state, user_input) ==
    LET m == bedroom_of[user_input]
    IN  IF /\ state.bedrooms = << >>
           /\ (deep_in[ServiceOrEmpty(state)] \/ m # << >>)
           /\ m # << >>
        THEN [ taken |-> TRUE, branch |-> "bedrooms",
               state |-> [state EXCEPT !.bedrooms = m, !.phase = "availability"],
               prompt |-> SlotPrompt ]
        ELSE [ taken |-> FALSE, branch |-> "none", state |-> state, prompt |-> "" ]

\* phase "collecting": the first step that returns; taken = FALSE when the
\* code falls out of the block
Collecting(state, user_input) ==
    LET c == CollectContact(state, user_input)
    IN  IF c.taken THEN c ELSE CollectBedrooms(state, user_input)

\* "All details gathered": the row gather hands to save_request_to_db
booking_data(state, phone) ==
    [ name |-> state.name, email |-> state.email, phone |-> phone,
      city |-> state.city, address |-> state.address, service |-> state.service,
      bedrooms |-> state.bedrooms, message |-> state.message ]

\* INSERT INTO confirmed_requests
save_request_to_db(table, data, confirmation, booking_time) ==
    Append(table,
           [ name |-> data.name, email |-> data.email, phone |-> data.phone,
             city |-> data.city, address |-> data.address, service |-> data.service,
             bedrooms |-> data.bedrooms, message |-> data.message,
             confirmation |-> confirmation, booking_time |-> booking_time ])

(***************************************************************************)
(* availability_slots: a bag of rows [day, slot, is_available].            *)
(***************************************************************************)
SlotRow(day, slot, flag) == [ day |-> day, slot |-> slot, is_available |-> flag ]

RowsFor(table, day, slot) ==
    { r \in BagToSet(table) : r.day = day /\ r.slot = slot }

\* the number of rows of the table for (day, slot)
RowCount(table, day, slot) ==
    LET a == SlotRow(day, slot, 0)
        b == SlotRow(day, slot, 1)
    IN  CopiesIn(a, table) + CopiesIn(b, table)

\* UPDATE availability_slots SET is_available = flag WHERE day = ? AND slot = ?
UpdateSlot(table, day, slot, flag) ==
    LET n      == RowCount(table, day, slot)
        others == [ r \in BagToSet(table) \ RowsFor(table, day, slot) |-> table[r] ]
    IN  IF n = 0 THEN table
        ELSE others (+) [ r \in { SlotRow(day, slot, flag) } |-> n ]

\* a plain INSERT on a table without the UNIQUE(day, slot) constraint
InsertSlot(table, day, slot, flag) ==
    table (+) SetToBag({ SlotRow(day, slot, flag) })

\* INSERT ... VALUES (day, slot, flag) ON CONFLICT(day, slot) DO UPDATE SET
\* is_available = flag
UpsertSlot(table, day, slot, flag) ==
    IF RowCount(table, day, slot) = 0
    THEN table (+) SetToBag({ SlotRow(day, slot, flag) })
    ELSE UpdateSlot(table, day, slot, flag)

\* a gather that books and leaves the slots table alone
leave_slot(table, day, slot) == table

\* a gather that marks the slot with a plain INSERT
insert_slot_taken(table, day, slot) ==
    table (+) SetToBag({ SlotRow(day, slot, 0) })

\* gather's "mark slot taken"
mark_slot_taken(table, day, slot) == UpsertSlot(table, day, slot, 0)

\* phase "availability"
Availability(state, user_input, today_) ==
    LET chosen_day == day_of[user_input, today_]
        slot       == slot_of[user_input]
    IN  IF chosen_day = None \/ slot = None
        THEN [ taken |-> TRUE, branch |-> "clarify", state |-> state,
               prompt |-> ClarifyPrompt, day |-> None, slot |-> None ]
        ELSE [ taken |-> TRUE, branch |-> "booked",
               state |-> [state EXCEPT !.phase = "done"],
               prompt |-> BookedPrompt(state, chosen_day, slot),
               day |-> chosen_day, slot |-> slot ]

(***************************************************************************)
(* gather: one turn.  cs is call_state, rows the services table, ai_reply  *)
(* what get_mistral_response answers.  The result names the branch that    *)
(* returned, the session after the turn, the prompt, and for the branch    *)
(* "booked" the chosen day and slot.                                       *)
(***************************************************************************)
WithSlot(r) ==
    [ branch |-> r.branch, state |-> r.state, prompt |-> r.prompt,
      day |-> None, slot |-> None ]

\* a knowledge hit that abandons the funnel
KnowledgeHitRestarts(state, kb) ==
    [ branch |-> "kb", state |-> [state EXCEPT !.phase = "intro"],
      prompt |-> KbReply(kb), day |-> None, slot |-> None ]

\* "Quick KB lookup": a hit is answered from the services found
KnowledgeHit(state, kb) ==
    [ branch |-> "kb", state |-> state, prompt |-> KbReply(kb),
      day |-> None, slot |-> None ]

GatherTurn(cs, phone, raw, rows, today_, ai_reply) ==
    LET user_input == strip_of[raw]
        state      == SessionOf(cs, phone)
        kb         == search_knowledge_base(rows, user_input)
        intent     == intent_of[user_input]
        phase      == state.phase
        col        == Collecting(state, user_input)
        av         == Availability(state, user_input, today_)
    IN  IF user_input = ""
        THEN [ branch |-> "empty", state |-> state, prompt |-> RepeatPrompt,
               day |-> None, slot |-> None ]
        ELSE IF kb # << >>
        THEN KnowledgeHit(state, kb)
        ELSE IF intent = "book" /\ phase \notin { "collecting", "confirming" }
        THEN WithSlot(BeginBooking(state))
        ELSE IF phase = "collecting" /\ col.taken
        THEN WithSlot(col)
        ELSE IF state.phase = "availability"
        THEN [ branch |-> av.branch, state |-> av.state, prompt |-> av.prompt,
               day |-> av.day, slot |-> av.slot ]
        ELSE [ branch |-> "llm", state |-> state, prompt |-> ai_reply,
               day |-> None, slot |-> None ]

\* the interactions rows a turn inserts: the user_speech row of every turn
\* with speech, and the ai_reply row of the free-form branch
Logged(branch) == IF branch = "empty" THEN 0 ELSE IF branch = "llm" THEN 2 ELSE 1

(***************************************************************************)
(* State.                                                                  *)
(***************************************************************************)
VARIABLES
    call_state,          \* phone -> session dict (the module-level dict)
    confirmed_requests,  \* the bookings table, in id order
    availability_slots,  \* the slots table
    services,            \* the services table, in rowid order
    faqs,                \* the faqs table, in rowid order
    today,               \* date.today()
    last,                \* the last request served and its response
    threads,             \* the gather requests in flight, by serving thread
    script               \* the turns of the scripted funnel spoken so far

vars == << call_state, confirmed_requests, availability_slots, services, faqs,
           today, last, threads, script >>

\* a thread that serves no request
Idle ==
    [ pc |-> "idle", phone |-> None, input |-> None, data |-> EmptySession,
      day |-> None, slot |-> None ]

\* the request last served: the handler, the caller, the speech, the branch of
\* gather that returned, the prompt spoken and the HTTP status
\* the TwiML verb that follows the spoken text of a response: every reply of
\* gather, voice and incoming_call ends in <Gather>, confirm_time ends in
\* <Hangup/>; JSON replies and error pages hold no verb
Verb(op, status) ==
    IF status # "200" THEN "none"
    ELSE IF op \in { "gather", "voice", "incoming_call" } THEN "Gather"
    ELSE IF op = "confirm_time" THEN "Hangup"
    ELSE "none"

Response(op, phone, input, branch, prompt, status) ==
    [ op |-> op, phone |-> phone, input |-> input, branch |-> branch,
      prompt |-> prompt, status |-> status, verb |-> Verb(op, status) ]

\* parse_and_store_services: upsert by name / by question
RECURSIVE UpsertAll(_, _, _)
UpsertAll(table, rows, key) ==
    IF rows = << >> THEN table
    ELSE LET r == Head(rows)
             t == IF \E i \in 1..Len(table) : table[i][key] = r[key]
                  THEN [ i \in 1..Len(table) |->
                           IF table[i][key] = r[key] THEN r ELSE table[i] ]
                  ELSE Append(table, r)
         IN  UpsertAll(t, Tail(rows), key)

Init ==
    /\ call_state = << >>
    /\ confirmed_requests = << >>
    /\ availability_slots = EmptyBag
    /\ services = << >>
    /\ faqs = << >>
    /\ today = 1
    /\ last = Response("start", None, None, "none", "", "200")
    /\ threads = [ t \in 1..NumThreads |-> Idle ]
    /\ script = 0

(***************************************************************************)
(* POST /gather: what one request does to the program's state.             *)
(***************************************************************************)
gather(phone, raw, ai_reply) ==
    LET before == SessionOf(call_state, phone)
        out    == GatherTurn(call_state, phone, raw, services, today, ai_reply)
    IN  /\ call_state' = PutSession(call_state, phone, out.state)
        /\ confirmed_requests' =
              IF out.branch = "booked"
              THEN save_request_to_db(confirmed_requests, booking_data(before, phone),
                                      "yes", out.day \o " " \o out.slot)
              ELSE confirmed_requests
        /\ availability_slots' =
              IF out.branch = "booked"
              THEN mark_slot_taken(availability_slots, out.day, out.slot)
              ELSE availability_slots
        /\ last' = Response("gather", phone, raw, out.branch, out.prompt, "200")
        /\ UNCHANGED << services, faqs, today >>

\* the turn would insert a booking
Books(phone, raw) ==
    GatherTurn(call_state, phone, raw, services, today, "").branch = "booked"

Gather(phone, raw, ai_reply) ==
    /\ Books(phone, raw) => Len(confirmed_requests) < MaxBookings
    /\ gather(phone, raw, ai_reply)
    /\ UNCHANGED << threads, script >>

(***************************************************************************)
(* POST /trigger_call                                                      *)
(***************************************************************************)
\* a seed that keeps only the required fields
SeededRequired(payload) ==
    [ name |-> payload.name, email |-> None, phone |-> payload.phone,
      service |-> payload.service, message |-> payload.message,
      city |-> None, address |-> None, phase |-> "intro",
      bedrooms |-> << >> ]

SeededSession(payload) ==
    [ name |-> payload.name, email |-> payload.email, phone |-> payload.phone,
      service |-> payload.service, message |-> payload.message,
      city |-> payload.city, address |-> payload.address, phase |-> "intro",
      bedrooms |-> << >> ]

\* placed = FALSE when twilio_client.calls.create raises
TriggerCall(payload, placed) ==
    LET complete == /\ Truthy(payload.name) /\ Truthy(payload.phone)
                    /\ Truthy(payload.service) /\ Truthy(payload.message)
    IN  /\ call_state' = IF complete
                         THEN PutSession(call_state, payload.phone, SeededSession(payload))
                         ELSE call_state
        /\ last' = Response("trigger_call", payload.phone, None, "none", "",
                            IF ~complete THEN "400" ELSE IF placed THEN "200" ELSE "500")
        /\ UNCHANGED << confirmed_requests, availability_slots, services, faqs, today,
                        threads, script >>

(***************************************************************************)
(* /voice and POST /incoming_call                                          *)
(***************************************************************************)
VoicePrompt(state) ==
    "Hi " \o (IF Truthy(state.name) THEN state.name ELSE "there")
      \o ", this is Ava from Kepsten. We received your request for "
      \o (IF Truthy(state.service) THEN state.service ELSE "cleaning")
      \o ". Is now a good time to confirm details?"

Voice(phone) ==
    /\ last' = Response("voice", phone, None, "none",
                        VoicePrompt(SessionOf(call_state, phone)), "200")
    /\ UNCHANGED << call_state, confirmed_requests, availability_slots, services,
                    faqs, today, threads, script >>

IncomingPrompt == "Hi, I'm Ava from Kepsten. How can I help you today?"

incoming_call(caller) ==
    /\ call_state' = IF caller \in DOMAIN call_state THEN call_state
                     ELSE PutSession(call_state, caller,
                                     [EmptySession EXCEPT !.phase = "intro"])
    /\ last' = Response("incoming_call", caller, None, "none", IncomingPrompt, "200")
    /\ UNCHANGED << confirmed_requests, availability_slots, services, faqs, today >>

IncomingCall(caller) ==
    /\ incoming_call(caller)
    /\ UNCHANGED << threads, script >>

(***************************************************************************)
(* POST and DELETE /admin/slots, POST /admin/reindex, POST /confirm-time   *)
(***************************************************************************)
AdminSlots(method, payload) ==
    LET ok == Truthy(payload.day) /\ Truthy(payload.slot)
    IN  /\ availability_slots' =
              IF ~ok THEN availability_slots
              ELSE IF method = "POST"
              THEN UpsertSlot(availability_slots, payload.day, payload.slot, 1)
              ELSE UpdateSlot(availability_slots, payload.day, payload.slot, 0)
        /\ last' = Response("admin_slots", None, None, "none", "",
                            IF ok THEN "200" ELSE "400")
        /\ UNCHANGED << call_state, confirmed_requests, services, faqs, today,
                        threads, script >>

AdminReindex(found_services, found_faqs) ==
    /\ services' = UpsertAll(services, found_services, "name")
    /\ faqs' = UpsertAll(faqs, found_faqs, "question")
    /\ last' = Response("admin_reindex", None, None, "none", "", "200")
    /\ UNCHANGED << call_state, confirmed_requests, availability_slots, today,
                    threads, script >>

\* UPDATE confirmed_requests SET booking_time = ? WHERE phone = ?
update_booking_time(table, phone, booking_time) ==
    [ i \in 1..Len(table) |->
        IF table[i].phone = phone
        THEN [ table[i] EXCEPT !.booking_time = booking_time ] ELSE table[i] ]

ConfirmTime(phone, raw) ==
    LET user_time == strip_of[raw]
    IN  /\ confirmed_requests' =
              IF user_time # ""
              THEN update_booking_time(confirmed_requests, phone, user_time)
              ELSE confirmed_requests
        /\ last' = Response("confirm_time", phone, None, "none",
                            IF user_time # ""
                            THEN "Thank you. We've scheduled your service for "
                                   \o user_time \o ". Goodbye!"
                            ELSE "We didn't catch a time. Goodbye!",
                            "200")
        /\ UNCHANGED << call_state, availability_slots, services, faqs, today,
                        threads, script >>

\* midnight passes
Tick ==
    /\ today < MaxToday
    /\ today' = today + 1
    /\ UNCHANGED << call_state, confirmed_requests, availability_slots, services,
                    faqs, last, threads, script >>

(***************************************************************************)
(* The requests served one at a time: every handler.                       *)
(***************************************************************************)
Next ==
    \/ \E phone \in Phones, raw \in Utterances, ai \in AiReplies : Gather(phone, raw, ai)
    \/ \E payload \in TriggerPayloads, placed \in BOOLEAN : TriggerCall(payload, placed)
    \/ \E phone \in Phones : Voice(phone)
    \/ \E caller \in Phones : IncomingCall(caller)
    \/ \E method \in { "POST", "DELETE" }, payload \in AdminSlotPayloads :
          AdminSlots(method, payload)
    \/ \E found \in Scrapes : AdminReindex(found.services, found.faqs)
    \/ \E phone \in Phones, raw \in ConfirmTimes : ConfirmTime(phone, raw)
    \/ Tick

Spec == Init /\ [][Next]_vars

(***************************************************************************)
(* The dialog around the knowledge lookup and the bedrooms step: calls in  *)
(* and out, the turns, the reindex.                                        *)
(***************************************************************************)
NextDialog ==
    \/ \E phone \in Phones, raw \in DialogUtterances, ai \in AiReplies :
          Gather(phone, raw, ai)
    \/ \E payload \in TriggerPayloads, placed \in BOOLEAN : TriggerCall(payload, placed)
    \/ \E caller \in Phones : IncomingCall(caller)
    \/ \E found \in Scrapes : AdminReindex(found.services, found.faqs)

SpecDialog == Init /\ [][NextDialog]_vars

(***************************************************************************)
(* The scripted funnel: a caller rings in and speaks the turns of          *)
(* FunnelScript one after the other; the services table stays empty, so no *)
(* turn gets a knowledge hit.                                              *)
(***************************************************************************)
FunnelLen == Len(FunnelScript)

FunnelStart(caller) ==
    /\ script = 0
    /\ incoming_call(caller)
    /\ script' = 1
    /\ UNCHANGED threads

FunnelTurn(phone, raw, ai_reply) ==
    /\ script \in 1..FunnelLen
    /\ raw \in FunnelScript[script]
    /\ gather(phone, raw, ai_reply)
    /\ script' = script + 1
    /\ UNCHANGED threads

NextFunnel ==
    \/ \E caller \in Phones : FunnelStart(caller)
    \/ \E phone \in Phones, raw \in FunnelUtterances, ai \in AiReplies :
          FunnelTurn(phone, raw, ai)
    \/ Tick

SpecFunnel == Init /\ [][NextFunnel]_vars

(***************************************************************************)
(* gather served by the threads of the development server.  A turn that    *)
(* books is served in the steps of lines 649-668: the row is built and     *)
(* saved, the slot is marked, the phase is set; call_state is shared and   *)
(* nothing is locked.  The turns that do not book are taken in one step.   *)
(***************************************************************************)
\* the bookings the threads have still to insert
Pending == Cardinality({ t \in 1..NumThreads : threads[t].pc = "save" })

Accept(t, phone, raw, ai_reply) ==
    /\ threads[t].pc = "idle"
    /\ IF Books(phone, raw)
       THEN LET out == GatherTurn(call_state, phone, raw, services, today, ai_reply)
            IN  /\ Len(confirmed_requests) + Pending < MaxRaceBookings
                /\ threads' = [ threads EXCEPT ![t] =
                                  [ pc |-> "save", phone |-> phone, input |-> raw,
                                    data |-> booking_data(SessionOf(call_state, phone),
                                                          phone),
                                    day |-> out.day, slot |-> out.slot ] ]
                /\ call_state' = PutSession(call_state, phone,
                                            SessionOf(call_state, phone))
                /\ UNCHANGED << confirmed_requests, availability_slots, services,
                                faqs, today, last >>
       ELSE /\ gather(phone, raw, ai_reply)
            /\ UNCHANGED threads
    /\ UNCHANGED script

\* save_request_to_db(booking_data, ...)
Save(t) ==
    /\ threads[t].pc = "save"
    /\ confirmed_requests' =
          save_request_to_db(confirmed_requests, threads[t].data, "yes",
                             threads[t].day \o " " \o threads[t].slot)
    /\ threads' = [ threads EXCEPT ![t].pc = "mark" ]
    /\ UNCHANGED << call_state, availability_slots, services, faqs, today, last,
                    script >>

\* "mark slot taken"
Mark(t) ==
    /\ threads[t].pc = "mark"
    /\ availability_slots' =
          mark_slot_taken(availability_slots, threads[t].day, threads[t].slot)
    /\ threads' = [ threads EXCEPT ![t].pc = "finish" ]
    /\ UNCHANGED << call_state, confirmed_requests, services, faqs, today, last,
                    script >>

\* state["phase"] = "done", and the response
Finish(t) ==
    LET phone == threads[t].phone
        state == SessionOf(call_state, phone)
    IN  /\ threads[t].pc = "finish"
        /\ call_state' = PutSession(call_state, phone, [state EXCEPT !.phase = "done"])
        /\ last' = Response("gather", phone, threads[t].input, "booked",
                            BookedPrompt(state, threads[t].day, threads[t].slot), "200")
        /\ threads' = [ threads EXCEPT ![t] = Idle ]
        /\ UNCHANGED << confirmed_requests, availability_slots, services, faqs, today,
                        script >>

NextConc ==
    \/ \E t \in 1..NumThreads, phone \in Phones, raw \in RaceUtterances,
          ai \in AiReplies : Accept(t, phone, raw, ai)
    \/ \E t \in 1..NumThreads : Save(t)
    \/ \E t \in 1..NumThreads : Mark(t)
    \/ \E t \in 1..NumThreads : Finish(t)
    \/ \E method \in { "POST", "DELETE" }, payload \in AdminSlotPayloads :
          AdminSlots(method, payload)

SpecConc == Init /\ [][NextConc]_vars

(***************************************************************************)
(* Properties.                                                             *)
(***************************************************************************)
\* the step serves a gather request of the caller last'.phone with the
\* speech last'.input
GatherStep == last'.op = "gather" /\ UNCHANGED << today, threads >>

\* the speech gets a knowledge hit
KbHit(raw) ==
    /\ strip_of[raw] # ""
    /\ search_knowledge_base(services, strip_of[raw]) # << >>

\* the rows of the slots table that are not the row of (day, slot) are the same
\* in both tables
SameOtherRows(a, b, day, slot) ==
    \A r \in BagToSet(a) \cup BagToSet(b) :
        (r.day # day \/ r.slot # slot) => CopiesIn(r, a) = CopiesIn(r, b)

C4_UnresolvedSlotTurnStays ==
    [][ GatherStep =>
          LET phone  == last'.phone
              raw    == last'.input
              u      == strip_of[raw]
              before == SessionOf(call_state, phone)
          IN  ( /\ before.phase = "availability"
                /\ u # ""
                /\ ~KbHit(raw)
                /\ (day_of[u, today] = None \/ slot_of[u] = None) )
              => /\ SessionOf(call_state', phone).phase = "availability"
                 /\ last'.prompt = ClarifyPrompt
                 /\ confirmed_requests' = confirmed_requests
                 /\ availability_slots' = availability_slots
      ]_vars

\* the session is in the greeting stage: phase "intro", as trigger_call and
\* incoming_call leave it
Greeting(state) == state.phase = "intro"

\* the step is a gather turn of a greeting session with booking intent and no
\* knowledge hit
BookingIntentAtGreeting ==
    /\ GatherStep
    /\ Greeting(SessionOf(call_state, last'.phone))
    /\ strip_of[last'.input] # ""
    /\ ~KbHit(last'.input)
    /\ intent_of[strip_of[last'.input]] = "book"

\* C7, as stated: a gather turn of a greeting session with booking intent and
\* no knowledge hit begins the funnel and speaks the service menu.
C7_BookingIntentAsksService ==
    [][ BookingIntentAtGreeting =>
          /\ SessionOf(call_state', last'.phone).phase = "collecting"
          /\ last'.prompt = ServiceMenuPrompt
      ]_vars

\* C7, amended: a gather turn of a greeting session with booking intent and no
\* knowledge hit sets the phase to "collecting"; it speaks the service menu
\* when the session holds no service, and asks for the full name when it holds
\* one, as a session seeded by trigger_call does.
C7_BookingIntentBegins ==
    [][ BookingIntentAtGreeting =>
          /\ SessionOf(call_state', last'.phone).phase = "collecting"
          /\ last'.prompt =
                IF Truthy(SessionOf(call_state, last'.phone).service)
                THEN NamePrompt ELSE ServiceMenuPrompt
      ]_vars

\* C7 witness: a seeded session has just begun the funnel: it holds a service
\* and was asked for the name
C7_Witness ==
    /\ last.op = "gather" /\ last.branch = "begin"
    /\ intent_of[strip_of[last.input]] = "book"
    /\ Truthy(SessionOf(call_state, last.phone).service)
    /\ SessionOf(call_state, last.phone).phase = "collecting"
    /\ last.prompt = NamePrompt

\* the days and half-days a slot can name
SlotDays == { Dates[i] : i \in 1..Len(Dates) }
Slots == { "AM", "PM" }

\* C10: on every slots table the program reaches and for every (day, slot),
\* marking the slot taken and marking it again leaves exactly one row for
\* (day, slot), unavailable, and the second marking changes nothing.
C10_MarkTakenIdempotent ==
    \A d \in SlotDays, s \in Slots :
        LET once  == mark_slot_taken(availability_slots, d, s)
            twice == mark_slot_taken(once, d, s)
        IN  /\ RowCount(twice, d, s) = 1
            /\ CopiesIn(SlotRow(d, s, 0), twice) = 1
            /\ CopiesIn(SlotRow(d, s, 1), twice) = 0
            /\ twice = once

\* C10 witness: two turns have both marked the same slot, and the table holds
\* one row for it, unavailable
C10_Witness ==
    \E t1, t2 \in 1..NumThreads :
        /\ t1 # t2
        /\ threads[t1].pc = "finish" /\ threads[t2].pc = "finish"
        /\ threads[t1].day = threads[t2].day /\ threads[t1].slot = threads[t2].slot
        /\ RowCount(availability_slots, threads[t1].day, threads[t1].slot) = 1
        /\ CopiesIn(SlotRow(threads[t1].day, threads[t1].slot, 0),
                    availability_slots) = 1

\* C5: a gather turn that gets a knowledge hit speaks the reply of the hit,
\* whatever the phase, and leaves the session, confirmed_requests and
\* availability_slots as they were.
C5_KnowledgeHitKeepsSession ==
    [][ (GatherStep /\ KbHit(last'.input)) =>
          /\ last'.prompt =
                KbReply(search_knowledge_base(services, strip_of[last'.input]))
          /\ SessionOf(call_state', last'.phone) = SessionOf(call_state, last'.phone)
          /\ confirmed_requests' = confirmed_requests
          /\ availability_slots' = availability_slots
      ]_vars

\* C5 witness: a session that has collected its contact fields and waits for the
\* slot has just been answered from the knowledge store
C5_Witness ==
    /\ last.op = "gather"
    /\ KbHit(last.input)
    /\ last.prompt = KbReply(search_knowledge_base(services, strip_of[last.input]))
    /\ SessionOf(call_state, last.phone).phase = "availability"
    /\ Truthy(SessionOf(call_state, last.phone).address)

\* the questions of the FAQs the scraper finds, and whether the speech matches
\* one as a LIKE '%speech%' would
FaqQuestions == { ScrapedFaqs[i].question : i \in 1..Len(ScrapedFaqs) }
faq_like_of == [ c \in FaqQuestions, q \in Inputs |-> Like(c, q) ]
FaqsMatching(raw) ==
    { i \in 1..Len(faqs) : strip_of[raw] # "" /\ faq_like_of[faqs[i].question, strip_of[raw]] }

\* the session waits for the name: phase "collecting" and no name yet
AskName(state) == state.phase = "collecting" /\ ~Truthy(state.name)

\* C6: a gather turn of a session that waits for the name, with a speech that
\* matches the question of a row of faqs, speaks the answer of that row and
\* leaves the session waiting for the name.
C6_FaqAnsweredMidFunnel ==
    [][ ( /\ GatherStep
          /\ AskName(SessionOf(call_state, last'.phone))
          /\ FaqsMatching(last'.input) # {} )
        => /\ \E i \in FaqsMatching(last'.input) : last'.prompt = faqs[i].answer
           /\ AskName(SessionOf(call_state', last'.phone))
      ]_vars

\* the session is at the bedrooms step: phase "collecting", the contact fields
\* filled, no bedrooms yet
AskBedrooms(state) ==
    /\ state.phase = "collecting"
    /\ Truthy(state.name) /\ Truthy(state.email)
    /\ Truthy(state.city) /\ Truthy(state.address)
    /\ state.bedrooms = << >>

\* where the speech holds a digit 1..5
BedroomChars(u) == { i \in 1..Len(u) : CharAt(u, i) \in { "1", "2", "3", "4", "5" } }

\* the digit at i is a word of its own
StandsAlone(u, i) ==
    /\ (i = 1 \/ ~IsWordChar(CharAt(u, i - 1)))
    /\ (i = Len(u) \/ ~IsWordChar(CharAt(u, i + 1)))

\* << n, alone >> when the speech holds a single digit character in 1..5, of
\* value n, alone telling whether it is a word of its own; << >> when it holds
\* none or several
single_digit_of ==
    [ u \in Inputs |->
        IF Cardinality(BedroomChars(u)) = 1
        THEN LET i == CHOOSE j \in BedroomChars(u) : TRUE
             IN  << DigitValue(CharAt(u, i)), StandsAlone(u, i) >>
        ELSE << >> ]

\* C8, as stated: a gather turn of a session at the bedrooms step whose speech
\* holds a single digit character in 1..5 stores that digit as the bedrooms of
\* the session.
C8_SingleDigitStored ==
    [][ ( /\ GatherStep
          /\ AskBedrooms(SessionOf(call_state, last'.phone))
          /\ single_digit_of[strip_of[last'.input]] # << >> )
        => SessionOf(call_state', last'.phone).bedrooms
             = << single_digit_of[strip_of[last'.input]][1] >>
      ]_vars

\* C8, amended: a gather turn of a session at the bedrooms step that gets no
\* knowledge hit and whose speech holds a single digit character in 1..5,
\* standing as a word of its own, stores that digit as the bedrooms of the
\* session and goes on to the slot question.
C8_LoneDigitStored ==
    [][ ( /\ GatherStep
          /\ AskBedrooms(SessionOf(call_state, last'.phone))
          /\ ~KbHit(last'.input)
          /\ single_digit_of[strip_of[last'.input]] # << >>
          /\ single_digit_of[strip_of[last'.input]][2] )
        => /\ SessionOf(call_state', last'.phone).bedrooms
                = << single_digit_of[strip_of[last'.input]][1] >>
           /\ SessionOf(call_state', last'.phone).phase = "availability"
           /\ last'.prompt = SlotPrompt
      ]_vars

\* C8 witness: the speech "3" of a session at the bedrooms step has just been
\* stored as three bedrooms
C8_Witness ==
    /\ last.op = "gather" /\ last.branch = "bedrooms"
    /\ single_digit_of[strip_of[last.input]] = << 3, TRUE >>
    /\ SessionOf(call_state, last.phone).bedrooms = << 3 >>
    /\ SessionOf(call_state, last.phone).phase = "availability"

\* the number words and the counts they name
NumberWords == { "one", "two", "three", "four", "five" }
WordValue(w) ==
    CASE w = "one" -> 1 [] w = "two" -> 2 [] w = "three" -> 3
      [] w = "four" -> 4 [] w = "five" -> 5

\* the word w stands in the text as a word of its own
HasWord(u, w) ==
    \E i \in 1..(Len(u) - Len(w) + 1) :
        /\ SubSeq(u, i, i + Len(w) - 1) = w
        /\ (i = 1 \/ ~IsWordChar(CharAt(u, i - 1)))
        /\ (i + Len(w) - 1 = Len(u) \/ ~IsWordChar(CharAt(u, i + Len(w))))

\* the number words of the speech, when it holds no digit
number_words_of ==
    [ u \in Inputs |->
        IF \E i \in 1..Len(u) : IsDigit(CharAt(u, i)) THEN {}
        ELSE { w \in NumberWords : HasWord(Lower(u), w) } ]

\* C9: a gather turn of a session at the bedrooms step that gets no knowledge
\* hit and whose speech holds no digit and exactly one of the words one, two,
\* three, four, five stores the count the word names as the bedrooms of the
\* session.
C9_NumberWordStored ==
    [][ ( /\ GatherStep
          /\ AskBedrooms(SessionOf(call_state, last'.phone))
          /\ ~KbHit(last'.input)
          /\ Cardinality(number_words_of[strip_of[last'.input]]) = 1 )
        => \E w \in number_words_of[strip_of[last'.input]] :
              SessionOf(call_state', last'.phone).bedrooms = << WordValue(w) >>
      ]_vars

\* the rows of the slots table
SlotRows(table) == BagCardinality(table)

\* C2: the turn that speaks the last line of the funnel script, "tomorrow pm",
\* leaves the session in phase "done", exactly one row in confirmed_requests,
\* with booking_time "<tomorrow's date> PM", and exactly one row in
\* availability_slots, the row of (tomorrow, PM), unavailable.
C2_FunnelBooksTomorrowPM ==
    [][ (script = FunnelLen /\ script' = FunnelLen + 1) =>
          LET tomorrow == isoformat(today + 1)
          IN  /\ SessionOf(call_state', last'.phone).phase = "done"
              /\ Len(confirmed_requests') = 1
              /\ confirmed_requests'[1].booking_time = tomorrow \o " PM"
              /\ SlotRows(availability_slots') = 1
              /\ CopiesIn(SlotRow(tomorrow, "PM", 0), availability_slots') = 1
      ]_vars

\* the threads that have inserted the booking of the turn they serve for phone
Saved(phone) ==
    { t \in 1..NumThreads :
        threads[t].phone = phone /\ threads[t].pc \in { "mark", "finish" } }

\* C3: of the turns of one caller that are being served at the same time, at
\* most one has saved a booking.
C3_NoDoubleBooking ==
    \A phone \in Phones : Cardinality(Saved(phone)) <= 1

(***************************************************************************)
(* Calls of distinct callers side by side: thread t serves the gather      *)
(* turns of the caller PairPhones[t].                                      *)
(***************************************************************************)
CallerOf(t) == PairPhones[t]

NextPair ==
    \/ \E t \in 1..NumThreads, raw \in RaceUtterances, ai \in AiReplies :
          Accept(t, CallerOf(t), raw, ai)
    \/ \E t \in 1..NumThreads : Save(t)
    \/ \E t \in 1..NumThreads : Mark(t)
    \/ \E t \in 1..NumThreads : Finish(t)

SpecPair == Init /\ [][NextPair]_vars

\* the callers of SpecPair
PairCallers == { CallerOf(t) : t \in 1..NumThreads }

\* the session the turn leaves when the store holds the caller's session alone
AloneAfter(phone, raw) ==
    GatherTurn(PutSession(<< >>, phone, SessionOf(call_state, phone)), phone, raw,
               services, today, "").state

\* C11: a step that changes the session of a caller, or creates it, is a gather
\* turn of that caller, and it leaves the session that the same turn leaves
\* when the store holds that caller's session alone; so every session is the
\* result of its own caller's turns only, however the turns interleave.
C11_TurnsWriteOwnSession ==
    [][ \A q \in PairCallers :
          ( \/ SessionOf(call_state', q) # SessionOf(call_state, q)
            \/ (q \in DOMAIN call_state') # (q \in DOMAIN call_state) )
          => /\ last'.op = "gather"
             /\ last'.phone = q
             /\ SessionOf(call_state', q) = AloneAfter(q, last'.input)
      ]_vars

\* C11 witness: the first caller's booking turn is in flight, past the insert,
\* while the second caller has given a name of its own and is still collecting
C11_Witness ==
    /\ threads[1].pc = "finish"
    /\ SessionOf(call_state, CallerOf(1)).phase = "availability"
    /\ SessionOf(call_state, CallerOf(2)).phase = "collecting"
    /\ Truthy(SessionOf(call_state, CallerOf(2)).name)
    /\ SessionOf(call_state, CallerOf(2)).name # SessionOf(call_state, CallerOf(1)).name

(***************************************************************************)
(* gather when a database call raises.  No statement of gather is inside a *)
(* try block: the sqlite3 error leaves the handler at the call that raised *)
(* it, what was written before stays written, and the server answers with *)
(* status 500 and no TwiML.                                                *)
(***************************************************************************)
\* the calls of gather that may raise: record_interaction of the speech, the
\* knowledge lookup, save_request_to_db, the slot upsert, record_interaction of
\* the free-form reply
Faults == { "log_failed", "kb_failed", "save_failed", "mark_failed", "reply_log_failed" }

\* a turn with the speech user_input that would return in branch reaches the
\* call that raises
Reaches(fault, user_input, branch) ==
    IF fault \in { "log_failed", "kb_failed" } THEN user_input # ""
    ELSE IF fault \in { "save_failed", "mark_failed" } THEN branch = "booked"
    ELSE branch = "llm"

GatherFault(phone, raw, fault) ==
    LET out == GatherTurn(call_state, phone, raw, services, today, "")
    IN  /\ Reaches(fault, strip_of[raw], out.branch)
        /\ fault = "mark_failed" => Len(confirmed_requests) < MaxBookings
        /\ call_state' = PutSession(call_state, phone, SessionOf(call_state, phone))
        /\ confirmed_requests' =
              IF fault = "mark_failed"
              THEN save_request_to_db(confirmed_requests,
                                      booking_data(SessionOf(call_state, phone), phone),
                                      "yes", out.day \o " " \o out.slot)
              ELSE confirmed_requests
        /\ last' = Response("gather", phone, raw, fault, "", "500")
        /\ UNCHANGED << availability_slots, services, faqs, today, threads, script >>

NextFault ==
    \/ \E phone \in Phones, raw \in Utterances \cup Blanks, ai \in AiReplies :
          Gather(phone, raw, ai)
    \/ \E phone \in Phones, raw \in Utterances, fault \in Faults :
          GatherFault(phone, raw, fault)

SpecFault == Init /\ [][NextFault]_vars

\* C12: a gather turn in which the knowledge lookup, the booking insert or an
\* interaction-log write fails still answers with status 200 and a prompt.
C12_FailedStoreStillPrompts ==
    [][ ( /\ GatherStep
          /\ last'.branch \in { "log_failed", "kb_failed", "save_failed",
                                "reply_log_failed" } )
        => /\ last'.status = "200"
           /\ last'.prompt # ""
      ]_vars

\* C13: a gather turn in which the slot upsert fails after the booking was
\* inserted still tells the caller the booking is made and sets the phase to
\* "done".
C13_FailedMarkStillBooks ==
    [][ (GatherStep /\ last'.branch = "mark_failed") =>
          /\ last'.status = "200"
          /\ last'.prompt # ""
          /\ SessionOf(call_state', last'.phone).phase = "done"
      ]_vars

\* C14: availability_slots holds at most one row for each (day, slot).
C14_OneRowPerSlot ==
    \A d \in SlotDays, s \in Slots : RowCount(availability_slots, d, s) <= 1

\* C14 witness: a booking turn has marked its slot and POST /admin/slots has
\* then made the same slot available again; the table holds the one row
C14_Witness ==
    \E t \in 1..NumThreads :
        /\ threads[t].pc = "finish"
        /\ CopiesIn(SlotRow(threads[t].day, threads[t].slot, 1), availability_slots) = 1
        /\ RowCount(availability_slots, threads[t].day, threads[t].slot) = 1

\* C15: no step removes a row of confirmed_requests or changes a field of a
\* row that is already there.
C15_BookingsImmutable ==
    [][ /\ Len(confirmed_requests') >= Len(confirmed_requests)
        /\ \A i \in 1..Len(confirmed_requests) :
              confirmed_requests'[i] = confirmed_requests[i]
      ]_vars

\* C16: a gather turn of a session in phase "done" leaves the phase "done" and
\* inserts no row into confirmed_requests.
C16_DoneIsTerminal ==
    [][ (GatherStep /\ SessionOf(call_state, last'.phone).phase = "done") =>
          /\ SessionOf(call_state', last'.phone).phase = "done"
          /\ confirmed_requests' = confirmed_requests
      ]_vars

\* name, phone, service and message are all present in the payload
AllPresent(payload) ==
    /\ Truthy(payload.name) /\ Truthy(payload.phone)
    /\ Truthy(payload.service) /\ Truthy(payload.message)

\* C17: a trigger_call step whose payload holds name, phone, service and
\* message requests the call (status 200, or 500 when placing it fails), leaves
\* for that phone a session of exactly the supplied fields in phase "intro",
\* and /voice then greets with the supplied name and service; a step whose
\* payload lacks one of the four answers 400 and leaves call_state as it was.
C17_TriggerSeedsIffComplete ==
    [][ \A payload \in TriggerPayloads, placed \in BOOLEAN :
          TriggerCall(payload, placed) =>
            IF AllPresent(payload)
            THEN /\ last'.status = (IF placed THEN "200" ELSE "500")
                 /\ payload.phone \in DOMAIN call_state'
                 /\ LET st == call_state'[payload.phone]
                    IN  /\ st.name = payload.name /\ st.phone = payload.phone
                        /\ st.service = payload.service /\ st.message = payload.message
                        /\ st.email = payload.email /\ st.city = payload.city
                        /\ st.address = payload.address
                        /\ st.phase = "intro" /\ st.bedrooms = << >>
                 /\ VoicePrompt(SessionOf(call_state', payload.phone))
                      = "Hi " \o payload.name
                          \o ", this is Ava from Kepsten. We received your request for "
                          \o payload.service \o ". Is now a good time to confirm details?"
            ELSE /\ last'.status = "400"
                 /\ call_state' = call_state
      ]_vars

\* C17 witness: the call of a complete payload was requested and the session
\* holds its fields, the optional ones too
C17_Witness ==
    /\ last.op = "trigger_call" /\ last.status = "200"
    /\ last.phone \in DOMAIN call_state
    /\ call_state[last.phone].name = "Ann"
    /\ call_state[last.phone].service = "Deep Cleaning"
    /\ call_state[last.phone].email = "ann@kepsten.com"
    /\ call_state[last.phone].address = "5 King Road"
    /\ call_state[last.phone].phase = "intro"

\* the speech is empty or holds blanks only
blank_of == [ raw \in RawTexts |-> \A i \in 1..Len(raw) : CharAt(raw, i) = " " ]

\* C18: a gather turn whose speech is empty or blank speaks the please-repeat
\* prompt and leaves the session, confirmed_requests and availability_slots as
\* they were, whatever the phase.
C18_EmptyTurnChangesNothing ==
    [][ (GatherStep /\ blank_of[last'.input]) =>
          /\ last'.prompt = RepeatPrompt
          /\ last'.status = "200"
          /\ SessionOf(call_state', last'.phone) = SessionOf(call_state, last'.phone)
          /\ confirmed_requests' = confirmed_requests
          /\ availability_slots' = availability_slots
      ]_vars

\* C18 witness: a session that waits for the slot, its fields collected, has
\* just been asked to repeat a blank speech
C18_Witness ==
    /\ last.op = "gather"
    /\ last.input \in Blanks
    /\ last.prompt = RepeatPrompt
    /\ SessionOf(call_state, last.phone).phase = "availability"
    /\ Truthy(SessionOf(call_state, last.phone).address)

(***************************************************************************)
(* The calls of callers who never speak an affirmative word                *)
(***************************************************************************)
NextPlain ==
    \/ \E phone \in Phones, raw \in PlainUtterances, ai \in AiReplies :
          Gather(phone, raw, ai)
    \/ \E payload \in TriggerPayloads, placed \in BOOLEAN : TriggerCall(payload, placed)

SpecPlain == Init /\ [][NextPlain]_vars

\* the words that count as a yes at a confirmation
AffirmativeTokens == { "yes", "sure", "please" }

Affirmative(raw) == \E tok \in AffirmativeTokens : Contains(Lower(raw), tok)

\* C19: no booking is persisted for a session that never passed a confirmation
\* with an utterance holding yes, sure or please: while no caller ever speaks
\* such a word, confirmed_requests stays empty.
C19_NoBookingWithoutAffirmative ==
    (\A raw \in PlainUtterances : ~Affirmative(raw)) => confirmed_requests = << >>

\* the caller of the coming gather step has just been read the service menu
AskedService ==
    /\ last.op = "gather"
    /\ last.prompt = ServiceMenuPrompt
    /\ last.phone = last'.phone

\* C20: the turn that follows the service menu, when its speech is not blank
\* and gets no knowledge hit, stores the speech as the service of the session,
\* leaves the other collected fields as they were and leaves the phase in the
\* funnel.
C20_ServiceTurnStoresService ==
    [][ ( /\ GatherStep
          /\ AskedService
          /\ strip_of[last'.input] # ""
          /\ ~KbHit(last'.input) )
        => LET before == SessionOf(call_state, last'.phone)
               after  == SessionOf(call_state', last'.phone)
           IN  /\ after.service = strip_of[last'.input]
               /\ after.name = before.name
               /\ after.email = before.email
               /\ after.city = before.city
               /\ after.address = before.address
               /\ after.bedrooms = before.bedrooms
               /\ after.phase = "collecting"
      ]_vars

\* the session is at the bedrooms step of a deep cleaning, the case in which
\* the bedrooms question is asked
AskDeepBedrooms(state) ==
    /\ AskBedrooms(state)
    /\ Truthy(state.service)
    /\ deep_in[state.service]

\* the speech names no bedroom count: no digit 1..5 and no number word
NoBedroomCount(u) == BedroomChars(u) = {} /\ number_words_of[u] = {}

\* C21: a gather turn of a session at the bedrooms step whose speech is not
\* blank, gets no knowledge hit and names no bedroom count leaves the bedrooms
\* unset and moves the session off the bedrooms step on that turn.
C21_UnparsedBedroomsAdvance ==
    [][ ( /\ GatherStep
          /\ AskDeepBedrooms(SessionOf(call_state, last'.phone))
          /\ strip_of[last'.input] # ""
          /\ ~KbHit(last'.input)
          /\ NoBedroomCount(strip_of[last'.input]) )
        => /\ SessionOf(call_state', last'.phone).bedrooms = << >>
           /\ ~AskDeepBedrooms(SessionOf(call_state', last'.phone))
      ]_vars

\* the gather step moves its session into phase "done"
DoneTransition ==
    /\ SessionOf(call_state, last'.phone).phase # "done"
    /\ SessionOf(call_state', last'.phone).phase = "done"

\* C22: a gather turn that produces a reply re-opens speech gathering, except
\* the turn that moves the session to phase "done", whose reply does not.
C22_OnlyDoneTurnMayEnd ==
    [][ (GatherStep /\ last'.status = "200") =>
          IF DoneTransition THEN last'.verb # "Gather" ELSE last'.verb = "Gather"
      ]_vars

(***************************************************************************)
(* detect_simple_intent over texts put together from a few words           *)
(***************************************************************************)
MaxWords == 3

\* one word for each rule of the classifier, and one that no rule knows
IntentWords == { "Book", "ann@kepsten.com", "Road", "PM", "move", "hello" }

RECURSIVE JoinWords(_)
JoinWords(ws) ==
    IF ws = << >> THEN ""
    ELSE IF Len(ws) = 1 THEN ws[1]
    ELSE ws[1] \o " " \o JoinWords(Tail(ws))

\* the texts handed to the classifier: missing, empty, and one to MaxWords words
IntentTexts ==
    { None, "" } \cup
      { JoinWords(ws) : ws \in UNION { [ 1..n -> IntentWords ] : n \in 1..MaxWords } }

\* detect_simple_intent applied to each text, tabulated once
classify_of == [ text \in IntentTexts |-> detect_simple_intent(text) ]

\* a call detect_simple_intent(text); the response holds the tag it returns
Classify(text) ==
    /\ last' = Response("classify", None, text, classify_of[text], "", "200")
    /\ UNCHANGED << call_state, confirmed_requests, availability_slots, services,
                    faqs, today, threads, script >>

NextIntent == \E text \in IntentTexts : Classify(text)

SpecIntent == Init /\ [][NextIntent]_vars

\* the tags of the rules, in the order the claim gives them
IntentRules == << "book", "email", "location", "availability", "service_choice" >>

\* the rule of the tag matches the lower-case text t
RuleMatches(tag, t) ==
    IF tag = "book" THEN \E x \in BookKeywords : Contains(t, x)
    ELSE IF tag = "email" THEN EmailSearch(t) # "" \/ Contains(t, "email")
    ELSE IF tag = "location" THEN \E k \in LocationKeywords : Contains(t, k)
    ELSE IF tag = "availability" THEN \E k \in AvailabilityKeywords : Contains(t, k)
    ELSE \E k \in ServiceKeywords : Contains(t, k)

\* the places in IntentRules of the rules that match the text
MatchingRules(text) ==
    { i \in 1..Len(IntentRules) :
        RuleMatches(IntentRules[i], Lower(IF text = None THEN "" ELSE text)) }

\* C23: the tag the classifier returns for a text is the tag of the first rule,
\* in the order book, email, location, availability, service_choice, that
\* matches it, and "question" when none does, a missing or empty text included.
C23_FirstMatchingRuleWins ==
    last.op = "classify" =>
        IF MatchingRules(last.input) = {} THEN last.branch = "question"
        ELSE last.branch = IntentRules[SetMin(MatchingRules(last.input))]

\* C23 witness: a text that matches the location rule and the availability rule
\* and no earlier one has been classified as location
C23_Witness ==
    /\ last.op = "classify"
    /\ MatchingRules(last.input) = { 3, 4 }
    /\ last.branch = "location"

(***************************************************************************)
(* The calls that reach the slot question, over the days                   *)
(***************************************************************************)
NextSlot ==
    \/ \E phone \in Phones, raw \in SlotUtterances, ai \in AiReplies :
          Gather(phone, raw, ai)
    \/ Tick

SpecSlot == Init /\ [][NextSlot]_vars

\* the day the words of the speech name: the current date for the word today,
\* the next date for the word tomorrow, else the first YYYY-MM-DD literal
DayNamed(u, today_) ==
    IF HasWord(Lower(u), "today") THEN isoformat(today_)
    ELSE IF HasWord(Lower(u), "tomorrow") THEN isoformat(today_ + 1)
    ELSE IF DateSearch(Lower(u)) # "" THEN DateSearch(Lower(u))
    ELSE None

AmTokens == { "am", "morning" }
PmTokens == { "pm", "evening", "afternoon" }

\* the half-day the words of the speech name, when they name one half-day only
HalfDayNamed(u) ==
    LET am == \E w \in AmTokens : HasWord(Lower(u), w)
        pm == \E w \in PmTokens : HasWord(Lower(u), w)
    IN  IF am /\ ~pm THEN "AM" ELSE IF pm /\ ~am THEN "PM" ELSE None

\* the step is a gather turn, without booking intent or knowledge hit, of a
\* session that waits for the slot, and the speech names a day and a half-day
SlotTurnNamesBoth ==
    /\ GatherStep
    /\ SessionOf(call_state, last'.phone).phase = "availability"
    /\ strip_of[last'.input] # ""
    /\ ~KbHit(last'.input)
    /\ intent_of[strip_of[last'.input]] # "book"
    /\ DayNamed(strip_of[last'.input], today) # None
    /\ HalfDayNamed(strip_of[last'.input]) # None

\* C24: a slot turn whose speech names a day (today, tomorrow or a date
\* literal) and a half-day (am, morning; pm, evening, afternoon) saves one
\* booking whose booking_time is "<day> <slot>" with the day and the half-day
\* named: the half-day is PM when the token is pm, evening or afternoon.
C24_SlotTokensResolve ==
    [][ SlotTurnNamesBoth =>
          /\ Len(confirmed_requests') = Len(confirmed_requests) + 1
          /\ confirmed_requests'[Len(confirmed_requests')].booking_time
               = DayNamed(strip_of[last'.input], today) \o " "
                   \o HalfDayNamed(strip_of[last'.input])
      ]_vars

\* the (day, slot) has a row in the slots table that marks it unavailable
MarkedTaken(table, day, slot) == CopiesIn(SlotRow(day, slot, 0), table) > 0

\* C25: a step that inserts a booking inserts it for a (day, slot) that the
\* slots table does not yet mark unavailable.
C25_NoBookingOfTakenSlot ==
    [][ Len(confirmed_requests') = Len(confirmed_requests) + 1 =>
          \A d \in SlotDays, s \in Slots :
              confirmed_requests'[Len(confirmed_requests')].booking_time = d \o " " \o s
                => ~MarkedTaken(availability_slots, d, s)
      ]_vars

\* the record holds a name, an email, a city and an address
ContactComplete(r) ==
    /\ Truthy(r.name) /\ Truthy(r.email)
    /\ Truthy(r.city) /\ Truthy(r.address)

\* C26: with the requests served one at a time, every session in phase
\* "availability" or "done" holds a name, an email, a city and an address, and
\* so does every row of confirmed_requests.
C26_ContactCompleteBeforeSlot ==
    /\ \A phone \in DOMAIN call_state :
          call_state[phone].phase \in { "availability", "done" }
            => ContactComplete(call_state[phone])
    /\ \A i \in 1..Len(confirmed_requests) : ContactComplete(confirmed_requests[i])

\* C26 witness: a session seeded by trigger_call without email, city and
\* address has gone through the contact steps and a slot turn has booked it
C26_Witness ==
    /\ last.op = "gather"
    /\ last.branch = "booked"
    /\ Len(confirmed_requests) = 1
    /\ confirmed_requests[1].service = "Standard Cleaning"
    /\ confirmed_requests[1].email = "Ann Lee"
    /\ SessionOf(call_state, last.phone).phase = "done"

\* some speech of the caller makes gather change the session of phone
SomeSpeechMoves(phone) ==
    \E raw \in RawTexts :
        GatherTurn(call_state, phone, raw, services, today, "").state
          # SessionOf(call_state, phone)

\* C27: phase "collecting" is no dead end.  A session that no speech changes
\* stays as it is under every sequence of turns, so every session in phase
\* "collecting" is changed by the gather turn of some speech.
C27_CollectingNeverStuck ==
    \A phone \in DOMAIN call_state :
        call_state[phone].phase = "collecting" => SomeSpeechMoves(phone)

\* the collected fields of a session that hold text
ContactFields == { "name", "email", "city", "address" }

\* the step changes a collected field of the session of phone that held a value
Overwrites(phone) ==
    LET before == SessionOf(call_state, phone)
        after  == SessionOf(call_state', phone)
    IN  \/ \E f \in ContactFields : Truthy(before[f]) /\ after[f] # before[f]
        \/ before.bedrooms # << >> /\ after.bedrooms # before.bedrooms

\* C28: the collected fields are write-once under gather and incoming_call: a
\* step that changes a name, email, city, address or bedrooms that held a value
\* is a trigger_call for that caller.
C28_CollectedFieldsWriteOnce ==
    [][ \A phone \in Phones :
          Overwrites(phone) => last'.op = "trigger_call" /\ last'.phone = phone
      ]_vars

\* C28 witness: a session that holds every contact field and 3 bedrooms has
\* just been spoken to again, with a digit, at the collecting phase
C28_Witness ==
    /\ last.op = "gather"
    /\ last.input = "3"
    /\ last.branch = "llm"
    /\ SessionOf(call_state, last.phone).phase = "collecting"
    /\ SessionOf(call_state, last.phone).bedrooms = << 3 >>
    /\ ContactComplete(SessionOf(call_state, last.phone))

====
